---- MODULE Spec2Model ----
(***************************************************************************)
(* SimpleVector<Type> (simple-vector/simple_vector.h), instantiated with a *)
(* two-valued Type: 0 is Type{} and 1 the other value.  The container      *)
(* never inspects an element, so two values tell any two slots apart.      *)
(* The heap is explicit: every ArrayPtr buffer is a heap cell holding the  *)
(* elements actually allocated, and a SimpleVector is the triple           *)
(* (arr_, size_, capacity_).  Element accesses go through Load/Store, so   *)
(* an access outside the allocated elements is visible in the model.       *)
(***************************************************************************)
EXTENDS Integers, Sequences, FiniteSets, TLC

\* ---------------------------------------------------------------- bounds
MaxCap == 2      \* largest capacity / constructor size explored
MaxPush == 8     \* length of the PushBack-only run
MaxGrow == 6     \* largest capacity of the single-vector growth runs
MaxOwn == 1      \* largest capacity / size of the three-vector ownership runs
NBuf == 4        \* heap cells available to ArrayPtr

Ids == {"a", "b"}
\* a third instance, alive only in the ownership runs
Third == "c"
AllIds == Ids \cup {Third}
DefaultValue == 0
Values == {DefaultValue, DefaultValue + 1}
BufIds == 1..NBuf

VARIABLES heap, vecs, op, pushed
vars == <<heap, vecs, op, pushed>>

\* ------------------------------------------------------- ArrayPtr (heap)
FreeCell == [used |-> FALSE, data |-> <<>>]

FreeIds(h) == {p \in BufIds : ~h[p].used}

NewBuf(h) == CHOOSE p \in FreeIds(h) : \A q \in FreeIds(h) : p <= q

\* ArrayPtr(size): nullptr for size 0, else size default-valued elements
ArrayPtrAlloc(h, n) ==
    IF n = 0 THEN [h |-> h, ptr |-> 0]
    ELSE LET p == NewBuf(h)
         IN [h |-> [h EXCEPT ![p] = [used |-> TRUE,
                                     data |-> [i \in 1..n |-> DefaultValue]]],
             ptr |-> p]

\* ~ArrayPtr(): delete[] raw_ptr_
ArrayPtrFree(h, p) == IF p = 0 THEN h ELSE [h EXCEPT ![p] = FreeCell]

\* number of elements actually allocated behind pointer p
Allocated(h, p) == IF p = 0 THEN 0 ELSE Len(h[p].data)

InBounds(h, p, i) == p # 0 /\ h[p].used /\ i >= 0 /\ i < Len(h[p].data)

\* ------------------------------------------------- element access with UB
\* A machine state M = [h, oob]: the heap and whether some access of the
\* running operation fell outside the allocated elements.  Such an access is
\* undefined behaviour; its outcome is drawn from the environment E:
\*   E.g  the value an out-of-bounds read returns,
\*   E.c  the buffer lying right behind the overrun one, so that a write k
\*        elements past the end lands in its slot k; 0 when no buffer lies
\*        there and the write has no visible effect.
Env0 == [g |-> DefaultValue, c |-> 0]

Machine(h) == [h |-> h, oob |-> FALSE, oobR |-> FALSE, oobW |-> FALSE]

Load(M, p, i, E) == IF InBounds(M.h, p, i) THEN M.h[p].data[i + 1] ELSE E.g

Touch(M, p, i) ==
    IF InBounds(M.h, p, i) THEN M ELSE [M EXCEPT !.oob = TRUE, !.oobR = TRUE]

Store(M, p, i, x, E) ==
    IF InBounds(M.h, p, i)
    THEN [M EXCEPT !.h[p].data[i + 1] = x]
    ELSE LET q == E.c
             j == i - Allocated(M.h, p)
         IN IF p # 0 /\ q # 0 /\ q # p /\ InBounds(M.h, q, j)
            THEN [M EXCEPT !.h[q].data[j + 1] = x, !.oob = TRUE, !.oobW = TRUE]
            ELSE [M EXCEPT !.oob = TRUE, !.oobW = TRUE]

\* std::copy / std::move(first, last, dest): n elements, first one first
RECURSIVE CopyFwd(_, _, _, _, _, _, _)
CopyFwd(M, sp, si, dp, di, n, E) ==
    IF n <= 0 THEN M
    ELSE CopyFwd(Store(Touch(M, sp, si), dp, di, Load(M, sp, si, E), E),
                 sp, si + 1, dp, di + 1, n - 1, E)

\* std::copy_backward / std::move_backward: n elements, last one first
RECURSIVE CopyBwd(_, _, _, _, _, _, _)
CopyBwd(M, sp, si, dp, di, n, E) ==
    IF n <= 0 THEN M
    ELSE CopyBwd(Store(Touch(M, sp, si + n - 1), dp, di + n - 1,
                       Load(M, sp, si + n - 1, E), E),
                 sp, si, dp, di, n - 1, E)

\* ------------------------------------------------------------ SimpleVector
Vec(p, s, c) == [live |-> TRUE, ptr |-> p, size |-> s, capacity |-> c]
Dead == [live |-> FALSE, ptr |-> 0, size |-> 0, capacity |-> 0]

\* SimpleVector() noexcept = default
DefaultCtor == Vec(0, 0, 0)

RECURSIVE FillMovedNoReset(_, _, _, _, _, _)
FillMovedNoReset(M, p, i, n, value, E) ==
    IF i >= n THEN [m |-> M, value |-> value]
    ELSE FillMovedNoReset(Store(M, p, i, value, E), p, i + 1, n, value, E)

\* the loop of SimpleVector(size_t, Type&&): *it = move(value); value = Type{}
RECURSIVE FillMoved(_, _, _, _, _, _)
FillMoved(M, p, i, n, value, E) ==
    IF i >= n THEN [m |-> M, value |-> value]
    ELSE FillMoved(Store(M, p, i, value, E), p, i + 1, n, DefaultValue, E)

SizedMoveCtor(M, size, value, E) ==
    LET a == ArrayPtrAlloc(M.h, size)
        f == FillMoved([M EXCEPT !.h = a.h], a.ptr, 0, size, value, E)
    IN [m |-> f.m, vec |-> Vec(a.ptr, size, size), value |-> f.value]

SizedCtorAsReserve(M, size, E) ==
    LET a == ArrayPtrAlloc(M.h, size)
    IN [m |-> [M EXCEPT !.h = a.h], vec |-> Vec(a.ptr, 0, size),
        value |-> DefaultValue]

\* explicit SimpleVector(size_t size) : SimpleVector(size, std::move(Type{}))
SizedCtor(M, size, E) == SizedMoveCtor(M, size, DefaultValue, E)

\* std::fill(begin(), end(), value)
RECURSIVE Fill(_, _, _, _, _, _)
Fill(M, p, i, n, value, E) ==
    IF i >= n THEN M
    ELSE Fill(Store(M, p, i, value, E), p, i + 1, n, value, E)

SizedValueCtor(M, size, value, E) ==
    LET a == ArrayPtrAlloc(M.h, size)
    IN [m |-> Fill([M EXCEPT !.h = a.h], a.ptr, 0, size, value, E),
        vec |-> Vec(a.ptr, size, size)]

\* SimpleVector(ReserveProxyObj proxy)
ReserveCtor(M, cap) ==
    LET a == ArrayPtrAlloc(M.h, cap)
    IN [m |-> [M EXCEPT !.h = a.h], vec |-> Vec(a.ptr, 0, cap)]

\* ~SimpleVector(): releases arr_
Dtor(M, v) == [M EXCEPT !.h = ArrayPtrFree(M.h, v.ptr)]

\* void swap(SimpleVector& other)
SwapLv(this, other) ==
    [this |-> [this EXCEPT !.ptr = other.ptr, !.size = other.size,
                           !.capacity = other.capacity],
     other |-> [other EXCEPT !.ptr = this.ptr, !.size = this.size,
                             !.capacity = this.capacity]]

\* void Clear() noexcept { size_ = 0; }
Clear(v) == [v EXCEPT !.size = 0]

\* void swap(SimpleVector&& other): as swap, then other.Clear()
SwapRv(this, other) ==
    LET s == SwapLv(this, other)
    IN [this |-> s.this, other |-> Clear(s.other)]

\* void ChangeCapacity(const size_t new_size)
ChangeCapacity(M, this, new_size, E) ==
    LET n == SizedCtor(M, new_size, E)                 \* new_arr(new_size)
        prev_size == this.size
        m1 == CopyFwd(n.m, this.ptr, 0, n.vec.ptr, 0, this.size, E)
        s == SwapRv(this, n.vec)                        \* swap(move(new_arr))
    IN [m |-> Dtor(m1, s.other),                        \* ~new_arr
        vec |-> [s.this EXCEPT !.size = prev_size]]

CopyCtorShallow(M, other, E) == [m |-> M, vec |-> other]

\* SimpleVector(const SimpleVector& other)
CopyCtor(M, other, E) ==
    LET t == SizedCtor(M, other.size, E)                \* tmp(other.GetSize())
        m1 == CopyFwd(t.m, other.ptr, 0, t.vec.ptr, 0, other.size, E)
        tmp == [t.vec EXCEPT !.capacity = other.capacity]
        s == SwapLv(DefaultCtor, tmp)                   \* swap(tmp)
    IN [m |-> Dtor(m1, s.other), vec |-> s.this]

\* SimpleVector(SimpleVector&& other) noexcept
MoveCtor(M, other) ==
    LET a == ArrayPtrAlloc(M.h, other.size)             \* arr_(other.size_)
    IN [m |-> [M EXCEPT !.h = a.h],
        vec |-> Vec(other.ptr, other.size, other.capacity),
        other |-> Clear([other EXCEPT !.ptr = a.ptr])]

\* bool IsEmpty() const noexcept
IsEmpty(v) == v.size = 0

\* SimpleVector& operator=(const SimpleVector& rhs); same: this == &rhs
CopyAssign(M, this, rhs, same, E) ==
    IF same THEN [m |-> M, vec |-> this]
    ELSE IF IsEmpty(rhs) THEN [m |-> M, vec |-> Clear(this)]
    ELSE LET c == CopyCtor(M, rhs, E)                   \* copy(rhs)
             s == SwapLv(this, c.vec)                   \* swap(copy)
         IN [m |-> Dtor(c.m, s.other), vec |-> s.this]

MoveAssignSkipsEmpty(M, this, rhs, same) ==
    IF same \/ IsEmpty(rhs) THEN [m |-> M, vec |-> this, other |-> rhs]
    ELSE LET s == SwapRv(this, rhs)
         IN [m |-> M, vec |-> s.this, other |-> Clear(s.other)]

\* SimpleVector& operator=(SimpleVector&& rhs) noexcept; same: this == &rhs
MoveAssign(M, this, rhs, same) ==
    IF same THEN [m |-> M, vec |-> this, other |-> rhs]
    ELSE IF IsEmpty(rhs) THEN [m |-> M, vec |-> Clear(this), other |-> rhs]
    ELSE LET s == SwapRv(this, rhs)
         IN [m |-> M, vec |-> s.this, other |-> Clear(s.other)]

\* the loop of Resize: *it = Type{} for it in [begin()+size_, begin()+new_size)
ResizeFill(M, this, new_size, E) ==
    Fill(M, this.ptr, this.size, new_size, DefaultValue, E)

ResizeErasingTail(M, this, new_size, E) ==
    IF new_size <= this.size
    THEN [m |-> Fill(M, this.ptr, new_size, this.size, DefaultValue, E),
          vec |-> [this EXCEPT !.size = new_size]]
    ELSE IF new_size <= this.capacity
    THEN [m |-> ResizeFill(M, this, new_size, E),
          vec |-> [this EXCEPT !.size = new_size]]
    ELSE LET r == ChangeCapacity(M, this, new_size, E)
         IN [m |-> r.m, vec |-> [r.vec EXCEPT !.size = new_size]]

\* void Resize(size_t new_size)
Resize(M, this, new_size, E) ==
    IF new_size <= this.size
    THEN [m |-> M, vec |-> [this EXCEPT !.size = new_size]]
    ELSE IF new_size <= this.capacity
    THEN [m |-> ResizeFill(M, this, new_size, E),
          vec |-> [this EXCEPT !.size = new_size]]
    ELSE LET r == ChangeCapacity(M, this, new_size, E)
         IN [m |-> r.m, vec |-> [r.vec EXCEPT !.size = new_size]]

GrownByOne(size) == size + 1

\* size_ != 0 ? 2 * size_ : 1
GrownCapacity(size) == IF size # 0 THEN 2 * size ELSE 1

GrowIfNearlyFull(M, this, E) ==
    IF this.size + 1 >= this.capacity
    THEN ChangeCapacity(M, this, GrownCapacity(this.size), E)
    ELSE [m |-> M, vec |-> this]

\* if (size_ == capacity_) ChangeCapacity(...), shared by PushBack / Insert
GrowIfFull(M, this, E) ==
    IF this.size = this.capacity
    THEN ChangeCapacity(M, this, GrownCapacity(this.size), E)
    ELSE [m |-> M, vec |-> this]

\* void PushBack(const Type& item)
PushBack(M, this, item, E) ==
    LET g == GrowIfFull(M, this, E)
    IN [m |-> Store(g.m, g.vec.ptr, g.vec.size, item, E),
        vec |-> [g.vec EXCEPT !.size = g.vec.size + 1]]

\* Iterator Insert(ConstIterator pos, const Type& value); index = pos - begin
Insert(M, this, index, value, E) ==
    LET g == GrowIfFull(M, this, E)
        m1 == CopyBwd(g.m, g.vec.ptr, index, g.vec.ptr, index + 1,
                      g.vec.size - index, E)
    IN [m |-> Store(m1, g.vec.ptr, index, value, E),
        vec |-> [g.vec EXCEPT !.size = g.vec.size + 1],
        ret |-> [ptr |-> g.vec.ptr, idx |-> index]]

PopBackUnchecked(this) == [this EXCEPT !.size = this.size - 1]

\* void PopBack() noexcept
PopBack(this) == IF IsEmpty(this) THEN this
                 ELSE [this EXCEPT !.size = this.size - 1]

\* Iterator Erase(ConstIterator pos); index = pos - begin
Erase(M, this, index, E) ==
    [m |-> CopyFwd(M, this.ptr, index + 1, this.ptr, index,
                   this.size - (index + 1), E),
     vec |-> [this EXCEPT !.size = this.size - 1],
     ret |-> [ptr |-> this.ptr, idx |-> index]]

\* void Reserve(size_t new_capacity)
Reserve(M, this, new_capacity, E) ==
    IF this.capacity < new_capacity
    THEN ChangeCapacity(M, this, new_capacity, E)
    ELSE [m |-> M, vec |-> this]

\* std::move(init.begin(), init.end(), arr_.Get())
RECURSIVE MoveList(_, _, _, _, _)
MoveList(M, init, i, dp, E) ==
    IF i > Len(init) THEN M
    ELSE MoveList(Store(M, dp, i - 1, init[i], E), init, i + 1, dp, E)

\* SimpleVector(std::initializer_list<Type> init)
InitListCtor(M, init, E) ==
    LET a == ArrayPtrAlloc(M.h, Len(init))
    IN [m |-> MoveList([M EXCEPT !.h = a.h], init, 1, a.ptr, E),
        vec |-> Vec(a.ptr, Len(init), Len(init))]

\* Type& At(size_t index), the caller reading through the returned reference
At(M, this, index, E) ==
    IF index >= this.size
    THEN [m |-> M, throws |-> TRUE, ret |-> [ptr |-> 0, idx |-> 0],
          value |-> DefaultValue]
    ELSE [m |-> Touch(M, this.ptr, index), throws |-> FALSE,
          ret |-> [ptr |-> this.ptr, idx |-> index],
          value |-> Load(M, this.ptr, index, E)]

\* Type& operator[](size_t index) used as an lvalue: v[index] = value
WriteAt(M, this, index, value, E) == Store(M, this.ptr, index, value, E)

\* ------------------------------------------------------ comparison operators
\* std::equal(first1, last1, first2, last2) on ranges of the same length n
RECURSIVE StdEqual(_, _, _, _, _, _)
StdEqual(M, lp, rp, i, n, E) ==
    IF i >= n THEN [m |-> M, res |-> TRUE]
    ELSE LET m1 == Touch(Touch(M, lp, i), rp, i)
         IN IF Load(M, lp, i, E) = Load(M, rp, i, E)
            THEN StdEqual(m1, lp, rp, i + 1, n, E)
            ELSE [m |-> m1, res |-> FALSE]

\* std::lexicographical_compare(first1, last1, first2, last2)
RECURSIVE StdLexicographicalCompare(_, _, _, _, _, _, _)
StdLexicographicalCompare(M, lp, ls, rp, rs, i, E) ==
    IF i >= ls \/ i >= rs THEN [m |-> M, res |-> (i >= ls /\ i < rs)]
    ELSE LET m1 == Touch(Touch(M, lp, i), rp, i)
             x == Load(M, lp, i, E)
             y == Load(M, rp, i, E)
         IN IF x < y THEN [m |-> m1, res |-> TRUE]
            ELSE IF y < x THEN [m |-> m1, res |-> FALSE]
            ELSE StdLexicographicalCompare(m1, lp, ls, rp, rs, i + 1, E)

Negated(r) == [r EXCEPT !.res = ~r.res]

\* operator==: sizes equal && std::equal (a range of another length is unequal)
OperatorEq(M, lhs, rhs, E) ==
    IF lhs.size = rhs.size
    THEN StdEqual(M, lhs.ptr, rhs.ptr, 0, lhs.size, E)
    ELSE [m |-> M, res |-> FALSE]

\* operator!=: !(lhs == rhs)
OperatorNe(M, lhs, rhs, E) == Negated(OperatorEq(M, lhs, rhs, E))

\* operator<: std::lexicographical_compare
OperatorLt(M, lhs, rhs, E) ==
    StdLexicographicalCompare(M, lhs.ptr, lhs.size, rhs.ptr, rhs.size, 0, E)

\* operator<=: !(rhs < lhs)
OperatorLe(M, lhs, rhs, E) == Negated(OperatorLt(M, rhs, lhs, E))

\* operator>: rhs < lhs
OperatorGt(M, lhs, rhs, E) == OperatorLt(M, rhs, lhs, E)

\* operator>=: !(rhs > lhs)
OperatorGe(M, lhs, rhs, E) == Negated(OperatorGt(M, rhs, lhs, E))

\* --------------------------------------------------------------- the state
NoRet == [ptr |-> 0, idx |-> 0]

\* the call that produced the current state, until the caller takes its
\* result (ReturnAct); Idle between calls.  this: the vector whose size and
\* capacity before the call are kept (the source of a copy or move, else the
\* target)
\* what a call hands back besides ret: whether it threw, the value read
\* through the returned reference or left in the caller's argument, and the
\* results of the six comparison operators
NoOut == [throws |-> FALSE, value |-> DefaultValue,
          eq |-> FALSE, ne |-> FALSE, lt |-> FALSE,
          le |-> FALSE, gt |-> FALSE, ge |-> FALSE]

OpRec(name, dst, src, idx, val, ret, oob, this) ==
    [name |-> name, dst |-> dst, src |-> src, idx |-> idx, val |-> val,
     ret |-> ret, oob |-> oob,
     oldSize |-> this.size, oldCap |-> this.capacity, out |-> NoOut]

Idle == OpRec("Idle", "a", "a", 0, 0, NoRet, FALSE, DefaultCtor)

Lists == UNION {[1..n -> Values] : n \in 0..MaxCap}

\* the outcomes to draw from, given the run m0 of the operation under Env0:
\* a read value only if it reads out of bounds, a neighbouring buffer only
\* if it writes out of bounds
EnvsFor(m0) == [g : IF m0.oobR THEN Values ELSE {DefaultValue},
                c : IF m0.oobW THEN {0} \cup {p \in BufIds : heap[p].used}
                               ELSE {0}]

\* Addresses carry no meaning: states are kept up to a renaming of the heap
\* cells, the buffer of "a" first, then that of "b", then that of "c", then
\* the others.
Owned(nv) == {nv[v].ptr : v \in AllIds} \ {0}

Rank(nv, p) ==
    IF p = nv["a"].ptr THEN 1
    ELSE IF p = nv["b"].ptr THEN (IF nv["a"].ptr = 0 THEN 1 ELSE 2)
    ELSE IF p = nv[Third].ptr
    THEN Cardinality({nv["a"].ptr, nv["b"].ptr} \ {0}) + 1
    ELSE Cardinality(Owned(nv))
         + Cardinality({q \in BufIds \ Owned(nv) : q <= p})

Renamed(nv, p) == IF p = 0 THEN 0 ELSE Rank(nv, p)

CanonHeap(h, nv) ==
    [r \in BufIds |-> h[CHOOSE p \in BufIds : Rank(nv, p) = r]]

CanonVecs(nv) ==
    [v \in AllIds |-> [nv[v] EXCEPT !.ptr = Renamed(nv, nv[v].ptr)]]

Init ==
    /\ heap = [p \in BufIds |-> FreeCell]
    /\ vecs = [v \in AllIds |-> IF v \in Ids THEN DefaultCtor ELSE Dead]
    /\ op = Idle
    /\ pushed = <<>>

Step(m, nv, o) ==
    /\ heap' = CanonHeap(m.h, nv)
    /\ vecs' = CanonVecs(nv)
    /\ op' = [o EXCEPT !.ret.ptr = Renamed(nv, o.ret.ptr)]
    /\ UNCHANGED pushed

\* the caller has taken the result of the last call
ReturnAct ==
    /\ op # Idle
    /\ op' = Idle
    /\ UNCHANGED <<heap, vecs, pushed>>

\* ------------------------------------------------ construction, destruction
DestroyAct(v) ==
    /\ op = Idle
    /\ vecs[v].live
    /\ Step(Dtor(Machine(heap), vecs[v]), [vecs EXCEPT ![v] = Dead],
            OpRec("Destroy", v, v, 0, 0, NoRet, FALSE, DefaultCtor))

DefaultCtorAct(v) ==
    /\ op = Idle
    /\ ~vecs[v].live
    /\ Step(Machine(heap), [vecs EXCEPT ![v] = DefaultCtor],
            OpRec("DefaultCtor", v, v, 0, 0, NoRet, FALSE, vecs[v]))

SizedCtorAct(v, n) ==
    /\ op = Idle
    /\ ~vecs[v].live
    /\ LET r == SizedCtor(Machine(heap), n, Env0)
       IN Step(r.m, [vecs EXCEPT ![v] = r.vec],
               OpRec("SizedCtor", v, v, n, 0, NoRet, r.m.oob, vecs[v]))

SizedValueCtorAct(v, n, x) ==
    /\ op = Idle
    /\ ~vecs[v].live
    /\ LET r == SizedValueCtor(Machine(heap), n, x, Env0)
       IN Step(r.m, [vecs EXCEPT ![v] = r.vec],
               [OpRec("SizedValueCtor", v, v, n, x, NoRet, r.m.oob, vecs[v])
                    EXCEPT !.out.value = x])              \* const Type& value

\* SimpleVector v(n, std::move(x)); out.value: x after the call
SizedMoveCtorAct(v, n, x) ==
    /\ op = Idle
    /\ ~vecs[v].live
    /\ LET r == SizedMoveCtor(Machine(heap), n, x, Env0)
       IN Step(r.m, [vecs EXCEPT ![v] = r.vec],
               [OpRec("SizedMoveCtor", v, v, n, x, NoRet, r.m.oob, vecs[v])
                    EXCEPT !.out.value = r.value])

InitListCtorAct(v, init) ==
    /\ op = Idle
    /\ ~vecs[v].live
    /\ LET r == InitListCtor(Machine(heap), init, Env0)
       IN Step(r.m, [vecs EXCEPT ![v] = r.vec],
               OpRec("InitListCtor", v, v, Len(init), 0, NoRet, r.m.oob,
                     vecs[v]))

ReserveCtorAct(v, n) ==
    /\ op = Idle
    /\ ~vecs[v].live
    /\ LET r == ReserveCtor(Machine(heap), n)
       IN Step(r.m, [vecs EXCEPT ![v] = r.vec],
               OpRec("ReserveCtor", v, v, n, 0, NoRet, FALSE, vecs[v]))

\* SimpleVector v(w)
CopyCtorAct(v, w) ==
    /\ op = Idle
    /\ ~vecs[v].live /\ vecs[w].live
    /\ \E E \in EnvsFor(CopyCtor(Machine(heap), vecs[w], Env0).m) :
         LET r == CopyCtor(Machine(heap), vecs[w], E)
         IN Step(r.m, [vecs EXCEPT ![v] = r.vec],
                 OpRec("CopyCtor", v, w, 0, 0, NoRet, r.m.oob, vecs[w]))

\* SimpleVector v(std::move(w))
MoveCtorAct(v, w) ==
    /\ op = Idle
    /\ ~vecs[v].live /\ vecs[w].live
    /\ LET r == MoveCtor(Machine(heap), vecs[w])
       IN Step(r.m, [vecs EXCEPT ![v] = r.vec, ![w] = r.other],
               OpRec("MoveCtor", v, w, 0, 0, NoRet, FALSE, vecs[w]))

\* ------------------------------------------------------ assignment and swap
\* v = w (w may be v)
CopyAssignAct(v, w) ==
    /\ op = Idle
    /\ vecs[v].live /\ vecs[w].live
    /\ \E E \in EnvsFor(CopyAssign(Machine(heap), vecs[v], vecs[w], v = w,
                                   Env0).m) :
         LET r == CopyAssign(Machine(heap), vecs[v], vecs[w], v = w, E)
         IN Step(r.m, [vecs EXCEPT ![v] = r.vec],
                 OpRec("CopyAssign", v, w, 0, 0, NoRet, r.m.oob, vecs[v]))

\* v = std::move(w) (w may be v)
MoveAssignAct(v, w) ==
    /\ op = Idle
    /\ vecs[v].live /\ vecs[w].live
    /\ LET r == MoveAssign(Machine(heap), vecs[v], vecs[w], v = w)
       IN Step(r.m, [vecs EXCEPT ![w] = r.other, ![v] = r.vec],
               OpRec("MoveAssign", v, w, 0, 0, NoRet, FALSE, vecs[w]))

\* v.swap(w)
SwapAct(v, w) ==
    /\ op = Idle
    /\ vecs[v].live /\ vecs[w].live
    /\ LET s == SwapLv(vecs[v], vecs[w])
       IN Step(Machine(heap), [vecs EXCEPT ![w] = s.other, ![v] = s.this],
               OpRec("Swap", v, w, 0, 0, NoRet, FALSE, DefaultCtor))

\* ----------------------------------------------------------------- mutators
ClearAct(v) ==
    /\ op = Idle
    /\ vecs[v].live
    /\ Step(Machine(heap), [vecs EXCEPT ![v] = Clear(vecs[v])],
            OpRec("Clear", v, v, 0, 0, NoRet, FALSE, DefaultCtor))

ResizeAct(v, n) ==
    /\ op = Idle
    /\ vecs[v].live
    /\ \E E \in EnvsFor(Resize(Machine(heap), vecs[v], n, Env0).m) :
         LET r == Resize(Machine(heap), vecs[v], n, E)
         IN Step(r.m, [vecs EXCEPT ![v] = r.vec],
                 OpRec("Resize", v, v, n, 0, NoRet, r.m.oob, vecs[v]))

ReserveAct(v, n) ==
    /\ op = Idle
    /\ vecs[v].live
    /\ \E E \in EnvsFor(Reserve(Machine(heap), vecs[v], n, Env0).m) :
         LET r == Reserve(Machine(heap), vecs[v], n, E)
         IN Step(r.m, [vecs EXCEPT ![v] = r.vec],
                 OpRec("Reserve", v, v, n, 0, NoRet, r.m.oob, vecs[v]))

\* growth stays within the explored capacities
MayGrow(this, limit) ==
    this.size = this.capacity => GrownCapacity(this.size) <= limit

PushBackAct(v, x, limit) ==
    /\ op = Idle
    /\ vecs[v].live
    /\ MayGrow(vecs[v], limit)
    /\ \E E \in EnvsFor(PushBack(Machine(heap), vecs[v], x, Env0).m) :
         LET r == PushBack(Machine(heap), vecs[v], x, E)
         IN Step(r.m, [vecs EXCEPT ![v] = r.vec],
                 OpRec("PushBack", v, v, 0, x, NoRet, r.m.oob, vecs[v]))

PopBackAct(v) ==
    /\ op = Idle
    /\ vecs[v].live
    /\ Step(Machine(heap), [vecs EXCEPT ![v] = PopBack(vecs[v])],
            OpRec("PopBack", v, v, 0, 0, NoRet, FALSE, vecs[v]))

\* v.Insert(v.begin() + i, x), begin() <= pos <= end()
InsertAct(v, i, x, limit) ==
    /\ op = Idle
    /\ vecs[v].live
    /\ i <= vecs[v].size
    /\ MayGrow(vecs[v], limit)
    /\ \E E \in EnvsFor(Insert(Machine(heap), vecs[v], i, x, Env0).m) :
         LET r == Insert(Machine(heap), vecs[v], i, x, E)
         IN Step(r.m, [vecs EXCEPT ![v] = r.vec],
                 OpRec("Insert", v, v, i, x, r.ret, r.m.oob, vecs[v]))

\* v.Erase(v.begin() + i), begin() <= pos < end()
EraseAct(v, i) ==
    /\ op = Idle
    /\ vecs[v].live
    /\ i < vecs[v].size
    /\ \E E \in EnvsFor(Erase(Machine(heap), vecs[v], i, Env0).m) :
         LET r == Erase(Machine(heap), vecs[v], i, E)
         IN Step(r.m, [vecs EXCEPT ![v] = r.vec],
                 OpRec("Erase", v, v, i, 0, r.ret, r.m.oob, vecs[v]))

\* v[i] = x, index < size
WriteAct(v, i, x) ==
    /\ op = Idle
    /\ vecs[v].live
    /\ i < vecs[v].size
    /\ \E E \in EnvsFor(WriteAt(Machine(heap), vecs[v], i, x, Env0)) :
         LET m == WriteAt(Machine(heap), vecs[v], i, x, E)
         IN Step(m, vecs, OpRec("Write", v, v, i, x, NoRet, m.oob, DefaultCtor))

\* x = v.At(i), any index
AtAct(v, i) ==
    /\ op = Idle
    /\ vecs[v].live
    /\ \E E \in EnvsFor(At(Machine(heap), vecs[v], i, Env0).m) :
         LET r == At(Machine(heap), vecs[v], i, E)
         IN Step(r.m, vecs,
                 [OpRec("At", v, v, i, 0, r.ret, r.m.oob, vecs[v])
                      EXCEPT !.out.throws = r.throws, !.out.value = r.value])

\* v == w, v != w, v < w, v <= w, v > w, v >= w, one after the other (w may
\* be v)
CompareAct(v, w) ==
    /\ op = Idle
    /\ vecs[v].live /\ vecs[w].live
    /\ \E E \in EnvsFor(OperatorLt(OperatorEq(Machine(heap), vecs[v], vecs[w],
                                               Env0).m,
                                    vecs[v], vecs[w], Env0).m) :
         LET eq == OperatorEq(Machine(heap), vecs[v], vecs[w], E)
             ne == OperatorNe(eq.m, vecs[v], vecs[w], E)
             lt == OperatorLt(ne.m, vecs[v], vecs[w], E)
             le == OperatorLe(lt.m, vecs[v], vecs[w], E)
             gt == OperatorGt(le.m, vecs[v], vecs[w], E)
             ge == OperatorGe(gt.m, vecs[v], vecs[w], E)
         IN Step(ge.m, vecs,
                 [OpRec("Compare", v, w, 0, 0, NoRet, ge.m.oob, vecs[v])
                      EXCEPT !.out.eq = eq.res, !.out.ne = ne.res,
                             !.out.lt = lt.res, !.out.le = le.res,
                             !.out.gt = gt.res, !.out.ge = ge.res])

\* ------------------------------------------------------------ specification
\* a call returns, or a public operation is called (only when no call is
\* running: every operation is guarded by op = Idle)
Next ==
    \/ ReturnAct
    \/ \E v \in Ids : DestroyAct(v)
    \/ \E v \in Ids : DefaultCtorAct(v)
    \/ \E v \in Ids, n \in 0..MaxCap : SizedCtorAct(v, n)
    \/ \E v \in Ids, n \in 0..MaxCap, x \in Values : SizedValueCtorAct(v, n, x)
    \/ \E v \in Ids, n \in 0..MaxCap, x \in Values : SizedMoveCtorAct(v, n, x)
    \/ \E v \in Ids, init \in Lists : InitListCtorAct(v, init)
    \/ \E v \in Ids, n \in 0..MaxCap : ReserveCtorAct(v, n)
    \/ \E v \in Ids, w \in Ids : CopyCtorAct(v, w)
    \/ \E v \in Ids, w \in Ids : MoveCtorAct(v, w)
    \/ \E v \in Ids, w \in Ids : CopyAssignAct(v, w)
    \/ \E v \in Ids, w \in Ids : MoveAssignAct(v, w)
    \/ \E v \in Ids, w \in Ids : SwapAct(v, w)
    \/ \E v \in Ids : ClearAct(v)
    \/ \E v \in Ids, n \in 0..MaxCap : ResizeAct(v, n)
    \/ \E v \in Ids, n \in 0..MaxCap : ReserveAct(v, n)
    \/ \E v \in Ids, x \in Values : PushBackAct(v, x, MaxCap)
    \/ \E v \in Ids : PopBackAct(v)
    \/ \E v \in Ids, i \in 0..MaxCap, x \in Values : InsertAct(v, i, x, MaxCap)
    \/ \E v \in Ids, i \in 0..MaxCap : EraseAct(v, i)
    \/ \E v \in Ids, i \in 0..MaxCap, x \in Values : WriteAct(v, i, x)
    \/ \E v \in Ids, i \in 0..MaxCap : AtAct(v, i)
    \/ \E v \in Ids, w \in Ids : CompareAct(v, w)

Spec == Init /\ [][Next]_vars

\* PushBack only, onto the default-constructed "a"
PushOnlyAct(x) ==
    /\ vecs["a"].size < MaxPush
    /\ LET r == PushBack(Machine(heap), vecs["a"], x, Env0)
           nv == [vecs EXCEPT !["a"] = r.vec]
       IN /\ heap' = CanonHeap(r.m.h, nv)
          /\ vecs' = CanonVecs(nv)
          /\ op' = OpRec("PushBack", "a", "a", 0, x, NoRet, r.m.oob, vecs["a"])
          /\ pushed' = Append(pushed, x)

NextPush == \E x \in Values : PushOnlyAct(x)

SpecPush == Init /\ [][NextPush]_vars

\* -------------------- copy, then mutate the copy (scenario of the C3 claim)
\* "a" is built by its own operations while "b" does not exist, "b" is then
\* copy-constructed from "a" and only "b" is mutated until it is destroyed.
InitCopy ==
    /\ heap = [p \in BufIds |-> FreeCell]
    /\ vecs = [v \in AllIds |-> IF v = "a" THEN DefaultCtor ELSE Dead]
    /\ op = Idle
    /\ pushed = <<>>

\* the vector being mutated: "a" until the copy exists, then the copy
Target == IF vecs["b"].live THEN "b" ELSE "a"

NextCopy ==
    \/ ReturnAct
    \/ CopyCtorAct("b", "a")
    \/ DestroyAct("b")
    \/ ClearAct(Target)
    \/ \E n \in 0..MaxCap : ResizeAct(Target, n)
    \/ \E n \in 0..MaxCap : ReserveAct(Target, n)
    \/ \E x \in Values : PushBackAct(Target, x, MaxCap)
    \/ PopBackAct(Target)
    \/ \E i \in 0..MaxCap, x \in Values : InsertAct(Target, i, x, MaxCap)
    \/ \E i \in 0..MaxCap : EraseAct(Target, i)
    \/ \E i \in 0..MaxCap, x \in Values : WriteAct(Target, i, x)

SpecCopy == InitCopy /\ [][NextCopy]_vars

\* ------------------------- one vector, grown by PushBack and Insert
NextGrow ==
    \/ ReturnAct
    \/ \E x \in Values : PushBackAct("a", x, MaxGrow)
    \/ \E i \in 0..MaxGrow, x \in Values : InsertAct("a", i, x, MaxGrow)
    \/ PopBackAct("a")
    \/ ClearAct("a")
    \/ \E n \in 0..MaxGrow : ReserveAct("a", n)

SpecGrow == Init /\ [][NextGrow]_vars

\* ------------------------ three vectors: construction, copies, moves, swaps
NextOwn ==
    \/ ReturnAct
    \/ \E v \in AllIds : DestroyAct(v)
    \/ \E v \in AllIds, n \in 0..MaxOwn, x \in Values : SizedValueCtorAct(v, n, x)
    \/ \E v \in AllIds, n \in 0..MaxOwn : ReserveCtorAct(v, n)
    \/ \E v \in AllIds, w \in AllIds : CopyCtorAct(v, w)
    \/ \E v \in AllIds, w \in AllIds : MoveCtorAct(v, w)
    \/ \E v \in AllIds, w \in AllIds : CopyAssignAct(v, w)
    \/ \E v \in AllIds, w \in AllIds : MoveAssignAct(v, w)
    \/ \E v \in AllIds, w \in AllIds : SwapAct(v, w)

SpecOwn == Init /\ [][NextOwn]_vars

\* ------------------------------------------------------------------ claims
\* the value standing for a logical element that has no slot in the buffer
NoSlot == DefaultValue - 1

\* the logical contents [0, size) of a vector, as its buffer holds them
Contents(h, v) ==
    [i \in 1..v.size |-> IF InBounds(h, v.ptr, i - 1) THEN h[v.ptr].data[i]
                         ELSE NoSlot]

\* every slot the buffer has
Slots(h, v) == IF v.ptr = 0 THEN <<>> ELSE h[v.ptr].data

Stored(h, v) == \A i \in 1..v.size : InBounds(h, v.ptr, i - 1)

\* C1: in every state every live vector's buffer holds exactly capacity
\* allocated elements (none when capacity is 0).
C1_AllocatedIsCapacity ==
    \A v \in Ids : vecs[v].live =>
        Allocated(heap, vecs[v].ptr) = vecs[v].capacity

\* C2: after move-construction or move-assignment between distinct vectors
\* the source has size 0 and capacity 0.
C2_MoveSourceEmptied ==
    (op.name \in {"MoveCtor", "MoveAssign"} /\ op.dst # op.src) =>
        vecs[op.src].size = 0 /\ vecs[op.src].capacity = 0

\* C3: the copy has the source's size, capacity and elements and the copy
\* leaves the source unchanged; afterwards no mutation of the copy changes
\* the source's size, capacity or elements.
C3_CopyIsolated ==
    [][/\ op'.name = "CopyCtor" =>
            /\ vecs'["b"].size = vecs["a"].size
            /\ vecs'["b"].capacity = vecs["a"].capacity
            /\ Contents(heap', vecs'["b"]) = Contents(heap, vecs["a"])
       /\ (op' # Idle /\ op'.name # "Destroy" /\ vecs'["b"].live) =>
            /\ vecs'["a"].size = vecs["a"].size
            /\ vecs'["a"].capacity = vecs["a"].capacity
            /\ Contents(heap', vecs'["a"]) = Contents(heap, vecs["a"])
      ]_vars

\* C4: in every state every vector has 0 <= size <= capacity.
C4_SizeWithinCapacity ==
    \A v \in Ids : 0 <= vecs[v].size /\ vecs[v].size <= vecs[v].capacity

C4_Witness ==
    /\ op.name = "Erase"
    /\ vecs[op.dst].size = 1
    /\ vecs[op.dst].capacity = 2

\* C5: after move-construction or move-assignment between distinct vectors
\* the destination has the source's former size and, slot for slot, the
\* source's former elements.
C5_MoveTransfers ==
    [][(op'.name \in {"MoveCtor", "MoveAssign"} /\ op'.dst # op'.src) =>
           /\ vecs'[op'.dst].size = vecs[op'.src].size
           /\ Contents(heap', vecs'[op'.dst]) = Contents(heap, vecs[op'.src])
      ]_vars

C5_Witness ==
    /\ op.name = "MoveAssign"
    /\ op.dst # op.src
    /\ op.oldSize = 2
    /\ Contents(heap, vecs[op.dst]) = <<1, 0>>

PowersOfTwo == {2 ^ k : k \in 0..MaxPush}

SmallestPowerOfTwoFrom(n) ==
    CHOOSE c \in PowersOfTwo : c >= n /\ \A d \in PowersOfTwo : d >= n => c <= d

\* C6: after N PushBack calls onto a default-constructed vector its size is
\* N, its elements are the pushed values in push order, and its capacity is
\* the smallest power of two >= N (0 for N = 0).
C6_PushDoubling ==
    LET N == Len(pushed)
    IN /\ vecs["a"].size = N
       /\ Contents(heap, vecs["a"]) = pushed
       /\ vecs["a"].capacity = IF N = 0 THEN 0 ELSE SmallestPowerOfTwoFrom(N)

C6_Witness ==
    /\ Len(pushed) = 5
    /\ vecs["a"].capacity = 8
    /\ pushed[1] # pushed[2]

\* C7: PushBack and Insert on a full vector (size = capacity) make the
\* capacity 2 * size, or 1 when the size was 0; on a vector that is not full
\* they leave the capacity unchanged.
C7_GrowthPolicy ==
    [][op'.name \in {"PushBack", "Insert"} =>
           LET old == vecs[op'.dst]
               new == vecs'[op'.dst]
           IN IF old.size = old.capacity
              THEN new.capacity = (IF old.size # 0 THEN 2 * old.size ELSE 1)
              ELSE new.capacity = old.capacity
      ]_vars

C7_Witness ==
    /\ op.name = "Insert"
    /\ op.oldSize = 3 /\ op.oldCap = 3
    /\ vecs["a"].capacity = 6

\* the sequence s with v put in front of its element i (0-based)
InsertedAt(s, i, v) == SubSeq(s, 1, i) \o <<v>> \o SubSeq(s, i + 1, Len(s))

\* the sequence s without its element i (0-based)
RemovedAt(s, i) == SubSeq(s, 1, i) \o SubSeq(s, i + 2, Len(s))

\* C8: Insert(begin + i, v) on contents s yields s[0..i) ++ [v] ++ s[i..size)
\* held in the vector's buffer, grows the size by exactly 1 and returns the
\* new begin + i, where v is stored.
C8_InsertShifts ==
    [][op'.name = "Insert" =>
           LET old == vecs[op'.dst]
               new == vecs'[op'.dst]
               i == op'.idx
           IN /\ new.size = old.size + 1
              /\ Stored(heap', new)
              /\ Contents(heap', new)
                     = InsertedAt(Contents(heap, old), i, op'.val)
              /\ op'.ret = [ptr |-> new.ptr, idx |-> i]
              /\ Load(Machine(heap'), op'.ret.ptr, op'.ret.idx, Env0) = op'.val
      ]_vars

\* C9: Erase(begin + i) on contents s yields s[0..i) ++ s[i+1..size) held in
\* the vector's buffer, shrinks the size by exactly 1, keeps the capacity and
\* returns begin + i.
C9_EraseShifts ==
    [][op'.name = "Erase" =>
           LET old == vecs[op'.dst]
               new == vecs'[op'.dst]
               i == op'.idx
           IN /\ new.size = old.size - 1
              /\ new.capacity = old.capacity
              /\ Stored(heap', new)
              /\ Contents(heap', new) = RemovedAt(Contents(heap, old), i)
              /\ op'.ret = [ptr |-> new.ptr, idx |-> i]
      ]_vars

\* C10: Resize(k) with k <= size sets the size to k and leaves the capacity
\* and the value of every slot of the buffer unchanged.
C10_ResizeShrinks ==
    [][(op'.name = "Resize" /\ op'.idx <= vecs[op'.dst].size) =>
           LET old == vecs[op'.dst]
               new == vecs'[op'.dst]
           IN /\ new.size = op'.idx
              /\ new.capacity = old.capacity
              /\ Slots(heap', new) = Slots(heap, old)
      ]_vars

C10_Witness ==
    /\ op.name = "Resize"
    /\ op.oldSize = 2 /\ op.idx = 1
    /\ vecs[op.dst].size = 1
    /\ Slots(heap, vecs[op.dst]) = <<0, 1>>

\* C11: Resize(k) with k > size sets the size to k, keeps the elements
\* [0, old size) in order and makes every element in [old size, k) the
\* default value, all held in the vector's buffer; the capacity is unchanged
\* when k <= old capacity and exactly k otherwise.
C11_ResizeGrows ==
    [][(op'.name = "Resize" /\ op'.idx > vecs[op'.dst].size) =>
           LET old == vecs[op'.dst]
               new == vecs'[op'.dst]
               k == op'.idx
           IN /\ new.size = k
              /\ Stored(heap', new)
              /\ SubSeq(Contents(heap', new), 1, old.size)
                     = Contents(heap, old)
              /\ \A i \in (old.size + 1)..k :
                     Contents(heap', new)[i] = DefaultValue
              /\ new.capacity = (IF k <= old.capacity THEN old.capacity ELSE k)
      ]_vars

\* C12: Reserve(n) with n <= capacity changes neither the size, the capacity
\* nor any slot of the buffer; Reserve(n) with n > capacity makes the
\* capacity exactly n and keeps the size and the elements [0, size) in order.
C12_ReserveKeepsElements ==
    [][op'.name = "Reserve" =>
           LET old == vecs[op'.dst]
               new == vecs'[op'.dst]
               n == op'.idx
           IN IF n <= old.capacity
              THEN /\ new = old
                   /\ Slots(heap', new) = Slots(heap, old)
              ELSE /\ new.capacity = n
                   /\ new.size = old.size
                   /\ Contents(heap', new) = Contents(heap, old)
      ]_vars

\* C13: At(index) throws exactly when index >= size; otherwise it returns a
\* reference to slot index of the vector's buffer, which holds the element at
\* that index; either way size, capacity and every buffer slot are unchanged.
C13_AtChecksRange ==
    [][op'.name = "At" =>
           LET old == vecs[op'.dst]
               i == op'.idx
           IN /\ op'.out.throws <=> i >= old.size
              /\ ~op'.out.throws =>
                     /\ op'.ret = [ptr |-> old.ptr, idx |-> i]
                     /\ InBounds(heap, old.ptr, i)
                     /\ op'.out.value = Contents(heap, old)[i + 1]
              /\ vecs' = vecs
              /\ heap' = heap
      ]_vars

\* C14: PopBack on an empty vector changes nothing (the size stays 0);
\* PopBack on a non-empty vector lowers the size by exactly 1 and keeps the
\* capacity and the elements [0, size - 1).
C14_PopBackGuarded ==
    [][op'.name = "PopBack" =>
           LET old == vecs[op'.dst]
               new == vecs'[op'.dst]
           IN IF old.size = 0
              THEN /\ new = old
                   /\ heap' = heap
              ELSE /\ new.size = old.size - 1
                   /\ new.capacity = old.capacity
                   /\ Contents(heap', new)
                          = SubSeq(Contents(heap, old), 1, old.size - 1)
      ]_vars

C14_Witness ==
    /\ op.name = "PopBack"
    /\ op.oldSize = 0 /\ op.oldCap = 2
    /\ vecs[op.dst].size = 0
    /\ Slots(heap, vecs[op.dst]) = <<1, 0>>

\* C15: after v = w between distinct vectors v has w's size and w's elements
\* in order and w keeps its size, capacity and elements; v's capacity is its
\* own former capacity if w was empty, else w's capacity; v = v changes
\* nothing.
C15_CopyAssignCopies ==
    [][op'.name = "CopyAssign" =>
           LET d == op'.dst
               s == op'.src
           IN IF d = s
              THEN vecs' = vecs /\ heap' = heap
              ELSE /\ vecs'[d].size = vecs[s].size
                   /\ Contents(heap', vecs'[d]) = Contents(heap, vecs[s])
                   /\ vecs'[s].size = vecs[s].size
                   /\ vecs'[s].capacity = vecs[s].capacity
                   /\ Slots(heap', vecs'[s]) = Slots(heap, vecs[s])
                   /\ vecs'[d].capacity = (IF vecs[s].size = 0
                                           THEN vecs[d].capacity
                                           ELSE vecs[s].capacity)
      ]_vars

\* s is lexicographically less than t
LexLess(s, t) ==
    \E k \in 0..Len(s) :
        /\ k <= Len(t)
        /\ \A j \in 1..k : s[j] = t[j]
        /\ \/ (k = Len(s) /\ k < Len(t))
           \/ (k < Len(s) /\ k < Len(t) /\ s[k + 1] < t[k + 1])

C17_SingleOwner ==
    [][/\ \A v \in AllIds, w \in AllIds :
              (v # w /\ vecs'[v].live /\ vecs'[w].live /\ vecs'[v].ptr # 0)
                  => vecs'[v].ptr # vecs'[w].ptr
       /\ \A v \in AllIds :
              (vecs'[v].live /\ vecs'[v].ptr # 0) => heap'[vecs'[v].ptr].used
       /\ op'.name \in {"CopyCtor", "CopyAssign", "MoveCtor", "MoveAssign",
                        "Swap"} =>
              \A t \in AllIds \ {op'.dst, op'.src} :
                  /\ vecs'[t].live = vecs[t].live
                  /\ vecs'[t].size = vecs[t].size
                  /\ vecs'[t].capacity = vecs[t].capacity
                  /\ Slots(heap', vecs'[t]) = Slots(heap, vecs[t])
       /\ op'.name = "Swap" =>
              /\ Slots(heap', vecs'[op'.dst]) = Slots(heap, vecs[op'.src])
              /\ Slots(heap', vecs'[op'.src]) = Slots(heap, vecs[op'.dst])
       /\ op'.name = "MoveCtor" =>
              Slots(heap', vecs'[op'.dst]) = Slots(heap, vecs[op'.src])
      ]_vars

C17_Witness ==
    /\ op.name = "Swap"
    /\ op.dst = "a" /\ op.src = "b"
    /\ \A v \in AllIds : vecs[v].live /\ vecs[v].ptr # 0
    /\ Slots(heap, vecs["a"]) # Slots(heap, vecs["b"])

\* C18: SimpleVector(n) has size n and capacity n, and its n elements, held
\* in a buffer of n elements, all have the default value.
C18_SizedCtorDefaults ==
    op.name = "SizedCtor" =>
        LET v == vecs[op.dst]
            n == op.idx
        IN /\ v.size = n
           /\ v.capacity = n
           /\ Allocated(heap, v.ptr) = n
           /\ Contents(heap, v) = [i \in 1..n |-> DefaultValue]

C18_Witness ==
    /\ op.name = "SizedCtor"
    /\ op.idx = 2
    /\ vecs[op.dst].size = 2
    /\ Contents(heap, vecs[op.dst]) = <<DefaultValue, DefaultValue>>

\* C19: SimpleVector(n, value) has size n and capacity n over a buffer of n
\* elements in both overloads; with const Type& all n elements equal value
\* and value is unchanged; with Type&& and n >= 1 element 0 is the passed
\* value, the elements 1..n-1 have the default value and the caller's value
\* is the default value afterwards.
C19_SizedValueCtor ==
    op.name \in {"SizedValueCtor", "SizedMoveCtor"} =>
        LET v == vecs[op.dst]
            n == op.idx
        IN /\ v.size = n
           /\ v.capacity = n
           /\ Allocated(heap, v.ptr) = n
           /\ op.name = "SizedValueCtor" =>
                  /\ Contents(heap, v) = [i \in 1..n |-> op.val]
                  /\ op.out.value = op.val
           /\ (op.name = "SizedMoveCtor" /\ n >= 1) =>
                  /\ Contents(heap, v) =
                         [i \in 1..n |-> IF i = 1 THEN op.val ELSE DefaultValue]
                  /\ op.out.value = DefaultValue

C19_Witness ==
    /\ op.name = "SizedMoveCtor"
    /\ op.idx = 2 /\ op.val # DefaultValue
    /\ Contents(heap, vecs[op.dst]) = <<op.val, DefaultValue>>
    /\ op.out.value = DefaultValue

\* C20: every element read or written by PushBack, Insert, Erase, Resize,
\* operator[] and At, called with their preconditions met, addresses a slot
\* below the number of elements allocated in the vector's buffer.
C20_AccessesInBounds ==
    op.name \in {"PushBack", "Insert", "Erase", "Resize", "Write", "At"}
        => ~op.oob

====
